---------------------------- MODULE Spec2Model ----------------------------
(***************************************************************************)
(* Model of TOA.py: a regular-grammar parser (parse_grammar), the builder  *)
(* of an epsilon-NFA from the parsed grammar (build_nfa_from_grammar) and  *)
(* the NFA engine (class NFA: constructor, epsilon closures, accepts).     *)
(*                                                                         *)
(* A Python string is a sequence of characters, each character a one-      *)
(* character TLA+ string; a symbol (terminal, non-terminal, state) is a    *)
(* Python string, hence also such a sequence.  The Greek small epsilon is  *)
(* the character GreekEpsilon.                                             *)
(***************************************************************************)
EXTENDS Integers, Sequences, FiniteSets, TLC

VARIABLES
    pc,             \* where the run is
    decl,           \* the declared V, Sigma and start symbol
    grammar_lines,  \* the rule lines given to parse_grammar
    line_num,       \* parse_grammar: the number of the line last read
    grammar,        \* parse_grammar: the productions collected so far
    grammar_dict,   \* what parse_grammar returned to its caller
    error,          \* the exception that ended the run, if any
    args,           \* the arguments the NFA constructor is called with
    nfa,            \* the fields of the NFA object
    input_string,   \* the argument of the accepts call that last returned
    result,         \* what that call returned, and where it returned
    closure_call    \* the last _compute_epsilon_closure call and its value

vars == <<pc, decl, grammar_lines, line_num, grammar, grammar_dict, error,
          args, nfa, input_string, result, closure_call>>

-----------------------------------------------------------------------------
(* Bounds of the model.                                                    *)

MaxLines == 2

MaxInputLen == 3

MaxEdges == 3

-----------------------------------------------------------------------------
(* Python values.                                                          *)

\* Python's None: a value no string is equal to.
None == <<"None">>

GreekEpsilon == "U+03B5"

\* The characters str.strip() removes that occur in the modelled inputs.
Whitespace == {" ", "\t"}

FINAL_STATE_MARKER == <<"_", "F", "I", "N", "A", "L", "_">>

EpsilonKeyword == <<"e", "p", "s", "i", "l", "o", "n">>

\* str.lower() on one character (the upper-case letters of the inputs).
LowerChar(c) ==
    CASE c = "E" -> "e"
      [] c = "P" -> "p"
      [] c = "S" -> "s"
      [] c = "I" -> "i"
      [] c = "L" -> "l"
      [] c = "O" -> "o"
      [] c = "N" -> "n"
      [] c = "A" -> "a"
      [] c = "B" -> "b"
      [] c = "F" -> "f"
      [] OTHER -> c

Lower(s) == [i \in 1..Len(s) |-> LowerChar(s[i])]

\* s[i..j] (1-based, inclusive); empty when i > j.
Slice(s, i, j) == IF i > j THEN <<>> ELSE SubSeq(s, i, j)

RECURSIVE LStrip(_)
LStrip(s) ==
    IF s # <<>> /\ Head(s) \in Whitespace THEN LStrip(Tail(s)) ELSE s

RECURSIVE RStrip(_)
RStrip(s) ==
    IF s # <<>> /\ s[Len(s)] \in Whitespace
    THEN RStrip(Slice(s, 1, Len(s) - 1))
    ELSE s

\* str.strip()
Strip(s) == RStrip(LStrip(s))

\* The positions at which "->" starts in s.
ArrowPositions(s) ==
    {i \in 1..(Len(s) - 1) : s[i] = "-" /\ s[i + 1] = ">"}

\* "->" in s
ContainsArrow(s) == ArrowPositions(s) # {}

Min(S) == CHOOSE x \in S : \A y \in S : x <= y

\* s.split("->", 1) of a string that contains "->": <<head, body>>.
SplitArrow(s) ==
    LET i == Min(ArrowPositions(s))
    IN  <<Slice(s, 1, i - 1), Slice(s, i + 2, Len(s))>>

\* s.split("|"): the pieces between the bars, at least one piece.
RECURSIVE SplitBar(_, _)
SplitBar(s, piece) ==
    IF s = <<>> THEN <<piece>>
    ELSE IF Head(s) = "|" THEN <<piece>> \o SplitBar(Tail(s), <<>>)
    ELSE SplitBar(Tail(s), Append(piece, Head(s)))

\* [p.strip() for p in body.split("|")]
Productions(body) ==
    LET pieces == SplitBar(body, <<>>)
    IN  [i \in 1..Len(pieces) |-> Strip(pieces[i])]

-----------------------------------------------------------------------------
(* Exceptions: the Python type, the message (named after its text), the    *)
(* rule number and the symbol the message carries (0 and None if absent).  *)

NoError == [exc |-> "none", msg |-> "none", line_num |-> 0, symbol |-> None]

Raise(exc, msg, n, sym) ==
    [exc |-> exc, msg |-> msg, line_num |-> n, symbol |-> sym]


-----------------------------------------------------------------------------
(* parse_grammar                                                           *)

\* collections.defaultdict(list): grammar[head].append(p)
GrammarAppend(g, head, p) ==
    IF head \in DOMAIN g
    THEN [g EXCEPT ![head] = Append(@, p)]
    ELSE g @@ (head :> <<p>>)

\* Variant of CheckDeclarations: the overlap of Sigma and V is not checked.
CheckDeclarationsNoDisjoint(V, Sigma, S) ==
    IF V = {} THEN Raise("ValueError", "NonTerminalSetEmpty", 0, None)
    ELSE IF S \notin V
    THEN Raise("ValueError", "StartSymbolNotDeclared", 0, S)
    ELSE NoError

\* The checks parse_grammar makes before it reads any line.
CheckDeclarations(V, Sigma, S) ==
    IF V = {} THEN Raise("ValueError", "NonTerminalSetEmpty", 0, None)
    ELSE IF S \notin V
    THEN Raise("ValueError", "StartSymbolNotDeclared", 0, S)
    ELSE IF Sigma \cap V # {}
    THEN Raise("ValueError", "TerminalsNotDisjoint", 0, None)
    ELSE NoError

\* Variant of ParseProduction: the second character of a production of
\* length 2 is not checked against V.
ParseProductionNoNextCheck(prod, n, V, Sigma) ==
    IF Lower(prod) = EpsilonKeyword \/ prod = <<GreekEpsilon>>
    THEN [err |-> NoError, pair |-> <<None, None>>]
    ELSE IF Len(prod) = 1
    THEN IF prod \notin Sigma
         THEN [err |-> Raise("ValueError", "SymbolNotInDeclaredTerminals", n, prod),
               pair |-> <<None, None>>]
         ELSE [err |-> NoError, pair |-> <<prod, None>>]
    ELSE IF Len(prod) = 2
    THEN IF <<prod[1]>> \notin Sigma
         THEN [err |-> Raise("ValueError", "SymbolNotInDeclaredTerminals",
                             n, <<prod[1]>>),
               pair |-> <<None, None>>]
         ELSE [err |-> NoError, pair |-> <<<<prod[1]>>, <<prod[2]>>>>]
    ELSE [err |-> Raise("ValueError", "InvalidProductionFormat", n, None),
          pair |-> <<None, None>>]

\* Variant of ParseProduction: a production of length 1 is not checked against
\* Sigma.
ParseProductionNoTerminalCheck(prod, n, V, Sigma) ==
    IF Lower(prod) = EpsilonKeyword \/ prod = <<GreekEpsilon>>
    THEN [err |-> NoError, pair |-> <<None, None>>]
    ELSE IF Len(prod) = 1
    THEN [err |-> NoError, pair |-> <<prod, None>>]
    ELSE IF Len(prod) = 2
    THEN IF <<prod[1]>> \notin Sigma
         THEN [err |-> Raise("ValueError", "SymbolNotInDeclaredTerminals",
                             n, <<prod[1]>>),
               pair |-> <<None, None>>]
         ELSE IF <<prod[2]>> \notin V
         THEN [err |-> Raise("ValueError", "SymbolNotInDeclaredNonTerminals",
                             n, <<prod[2]>>),
               pair |-> <<None, None>>]
         ELSE [err |-> NoError, pair |-> <<<<prod[1]>>, <<prod[2]>>>>]
    ELSE [err |-> Raise("ValueError", "InvalidProductionFormat", n, None),
          pair |-> <<None, None>>]

\* One production string: the error it raises, or the pair it appends.
ParseProduction(prod, n, V, Sigma) ==
    IF Lower(prod) = EpsilonKeyword \/ prod = <<GreekEpsilon>>
    THEN [err |-> NoError, pair |-> <<None, None>>]
    ELSE IF Len(prod) = 1
    THEN IF prod \notin Sigma
         THEN [err |-> Raise("ValueError", "SymbolNotInDeclaredTerminals", n, prod),
               pair |-> <<None, None>>]
         ELSE [err |-> NoError, pair |-> <<prod, None>>]
    ELSE IF Len(prod) >= 2
    THEN IF Len(prod) = 2
         THEN LET terminal == <<prod[1]>>
                  next_non_terminal == <<prod[2]>>
              IN  IF terminal \notin Sigma
                  THEN [err |-> Raise("ValueError", "SymbolNotInDeclaredTerminals",
                                      n, terminal),
                        pair |-> <<None, None>>]
                  ELSE IF next_non_terminal \notin V
                  THEN [err |-> Raise("ValueError",
                                      "SymbolNotInDeclaredNonTerminals",
                                      n, next_non_terminal),
                        pair |-> <<None, None>>]
                  ELSE [err |-> NoError, pair |-> <<terminal, next_non_terminal>>]
         ELSE [err |-> Raise("ValueError", "InvalidProductionFormat", n, None),
               pair |-> <<None, None>>]
    ELSE [err |-> Raise("ValueError", "UnexpectedProductionFormat", n, None),
          pair |-> <<None, None>>]

\* for prod in productions: from the i-th production on; stops at a raise.
RECURSIVE ParseProductions(_, _, _, _, _, _, _)
ParseProductions(prods, i, head, n, g, V, Sigma) ==
    IF i > Len(prods) THEN [err |-> NoError, grammar |-> g]
    ELSE LET r == ParseProduction(prods[i], n, V, Sigma)
         IN  IF r.err # NoError THEN [err |-> r.err, grammar |-> g]
             ELSE ParseProductions(prods, i + 1, head, n,
                                   GrammarAppend(g, head, r.pair), V, Sigma)

\* Variant of ParseLine: a line with an empty production is skipped.
ParseLineSkipEmpty(raw, n, g, V, Sigma) ==
    LET line == Strip(raw)
    IN  IF line = <<>> \/ line[1] = "#" THEN [err |-> NoError, grammar |-> g]
        ELSE IF ~ContainsArrow(line)
        THEN [err |-> Raise("ValueError", "MissingArrow", n, None), grammar |-> g]
        ELSE LET head == Strip(SplitArrow(line)[1])
                 body == SplitArrow(line)[2]
                 productions == Productions(body)
             IN  IF head = <<>>
                 THEN [err |-> Raise("ValueError", "EmptyHead", n, None),
                       grammar |-> g]
                 ELSE IF head \notin V
                 THEN [err |-> Raise("ValueError", "HeadNotDeclared", n, head),
                       grammar |-> g]
                 ELSE IF \E k \in 1..Len(productions) : productions[k] = <<>>
                 THEN [err |-> NoError, grammar |-> g]
                 ELSE ParseProductions(productions, 1, head, n, g, V, Sigma)

\* One iteration of the loop over the lines: rule n, raw text raw.
ParseLine(raw, n, g, V, Sigma) ==
    LET line == Strip(raw)
    IN  IF line = <<>> \/ line[1] = "#" THEN [err |-> NoError, grammar |-> g]
        ELSE IF ~ContainsArrow(line)
        THEN [err |-> Raise("ValueError", "MissingArrow", n, None), grammar |-> g]
        ELSE LET head == Strip(SplitArrow(line)[1])
                 body == SplitArrow(line)[2]
                 productions == Productions(body)
             IN  IF head = <<>>
                 THEN [err |-> Raise("ValueError", "EmptyHead", n, None),
                       grammar |-> g]
                 ELSE IF head \notin V
                 THEN [err |-> Raise("ValueError", "HeadNotDeclared", n, head),
                       grammar |-> g]
                 ELSE IF productions = <<>>
                         \/ \E k \in 1..Len(productions) : productions[k] = <<>>
                 THEN [err |-> Raise("ValueError", "EmptyProduction", n, None),
                       grammar |-> g]
                 ELSE ParseProductions(productions, 1, head, n, g, V, Sigma)

\* What the caller of parse_grammar holds: nothing until it returns.
NoGrammar == [returned |-> FALSE, value |-> <<>>]

Returned(g) == [returned |-> TRUE, value |-> g]

-----------------------------------------------------------------------------
(* class NFA                                                               *)

\* dict.get(key, set())
Get(transitions, key) ==
    IF key \in DOMAIN transitions THEN transitions[key] ELSE {}

\* The elements of a set in the order a loop visits them.
RECURSIVE SetToSeq(_)
SetToSeq(S) ==
    IF S = {} THEN <<>>
    ELSE LET x == CHOOSE y \in S : TRUE IN <<x>> \o SetToSeq(S \ {x})

\* Variant of ClosureLoop: a neighbour is added to the closure and not to
\* the queue, so that only the first epsilon step is followed.
RECURSIVE ClosureLoopNoEnqueue(_, _, _, _)
ClosureLoopNoEnqueue(transitions, queue, visited, closure) ==
    IF queue = <<>> THEN closure
    ELSE LET current_state == Head(queue)
             epsilon_neighbors == Get(transitions, <<current_state, None>>)
             fresh == epsilon_neighbors \ visited
         IN  ClosureLoopNoEnqueue(transitions, Tail(queue), visited \cup fresh,
                                  closure \cup fresh)

\* The while loop of _compute_epsilon_closure: breadth-first over the
\* epsilon edges, from the queue, with the visited set and the closure so far.
RECURSIVE ClosureLoop(_, _, _, _)
ClosureLoop(transitions, queue, visited, closure) ==
    IF queue = <<>> THEN closure
    ELSE LET current_state == Head(queue)
             epsilon_neighbors == Get(transitions, <<current_state, None>>)
             fresh == epsilon_neighbors \ visited
         IN  ClosureLoop(transitions, Tail(queue) \o SetToSeq(fresh),
                         visited \cup fresh, closure \cup fresh)

\* _compute_epsilon_closure(state): the cache after the call; the call
\* returns cache[state].
ComputeEpsilonClosure(transitions, cache, state) ==
    IF state \in DOMAIN cache THEN cache
    ELSE cache @@ (state :> ClosureLoop(transitions, <<state>>, {state}, {state}))

\* _compute_all_epsilon_closures: for state in self.states
RECURSIVE ComputeAllEpsilonClosures(_, _, _)
ComputeAllEpsilonClosures(transitions, cache, todo) ==
    IF todo = {} THEN cache
    ELSE LET state == CHOOSE s \in todo : TRUE
         IN  ComputeAllEpsilonClosures(
                 transitions, ComputeEpsilonClosure(transitions, cache, state),
                 todo \ {state})

\* _get_epsilon_closure_set(states_set)
GetEpsilonClosureSet(cache, states_set) ==
    UNION {IF s \in DOMAIN cache THEN cache[s] ELSE {s} : s \in states_set}

NoNFA ==
    [states |-> {}, alphabet |-> {}, transitions |-> <<>>, start_state |-> None,
     accept_states |-> {}, epsilon_closures |-> <<>>]

\* NFA.__init__: the exception it raises, or the automaton it constructs.
NFAInit(states, alphabet, transitions, start_state, accept_states) ==
    LET bad == {k[2] : k \in {j \in DOMAIN transitions :
                                  j[2] # None /\ j[2] \notin alphabet}}
    IN  IF start_state \notin states
        THEN [err |-> Raise("ValueError", "StartStateNotInStates", 0, start_state),
              nfa |-> NoNFA]
        ELSE IF ~(accept_states \subseteq states)
        THEN [err |-> Raise("ValueError", "AcceptStatesNotSubset", 0, None),
              nfa |-> NoNFA]
        ELSE IF bad # {}
        THEN [err |-> Raise("ValueError", "SymbolNotInAlphabet", 0,
                            CHOOSE b \in bad : TRUE),
              nfa |-> NoNFA]
        ELSE [err |-> NoError,
              nfa |-> [states |-> states, alphabet |-> alphabet,
                       transitions |-> transitions, start_state |-> start_state,
                       accept_states |-> accept_states,
                       epsilon_closures |->
                           ComputeAllEpsilonClosures(transitions, <<>>, states)]]

\* The symbol-consuming step of accepts: the states one symbol leads to.
NextStatesAfterSymbol(transitions, current_states, symbol) ==
    UNION {Get(transitions, <<state, symbol>>) : state \in current_states}

NoResult == [ret |-> FALSE, exit |-> "none", consumed |-> 0]

\* Variant of AcceptsLoop: a symbol outside the alphabet is skipped.
RECURSIVE AcceptsLoopSkipInvalid(_, _, _, _)
AcceptsLoopSkipInvalid(a, current_states, w, i) ==
    IF i > Len(w)
    THEN [ret |-> current_states \cap a.accept_states # {}, exit |-> "end",
          consumed |-> i - 1]
    ELSE LET symbol == <<w[i]>>
         IN  IF symbol \notin a.alphabet
             THEN AcceptsLoopSkipInvalid(a, current_states, w, i + 1)
             ELSE LET next ==
                          GetEpsilonClosureSet(
                              a.epsilon_closures,
                              NextStatesAfterSymbol(a.transitions, current_states,
                                                    symbol))
                  IN  IF next = {}
                      THEN [ret |-> FALSE, exit |-> "dead_end", consumed |-> i]
                      ELSE AcceptsLoopSkipInvalid(a, next, w, i + 1)

\* Variant of AcceptsLoop: the loop goes on from the empty state set.
RECURSIVE AcceptsLoopNoShortCircuit(_, _, _, _)
AcceptsLoopNoShortCircuit(a, current_states, w, i) ==
    IF i > Len(w)
    THEN [ret |-> current_states \cap a.accept_states # {}, exit |-> "end",
          consumed |-> i - 1]
    ELSE LET symbol == <<w[i]>>
         IN  IF symbol \notin a.alphabet
             THEN [ret |-> FALSE, exit |-> "invalid_symbol", consumed |-> i]
             ELSE AcceptsLoopNoShortCircuit(
                      a,
                      GetEpsilonClosureSet(
                          a.epsilon_closures,
                          NextStatesAfterSymbol(a.transitions, current_states,
                                                symbol)),
                      w, i + 1)

\* The for loop of accepts from the i-th symbol on: the value returned, the
\* return statement taken ("invalid_symbol" prints the warning) and the
\* number of symbols the loop looked at.
RECURSIVE AcceptsLoop(_, _, _, _)
AcceptsLoop(a, current_states, w, i) ==
    IF i > Len(w)
    THEN [ret |-> current_states \cap a.accept_states # {}, exit |-> "end",
          consumed |-> i - 1]
    ELSE LET symbol == <<w[i]>>
         IN  IF symbol \notin a.alphabet
             THEN [ret |-> FALSE, exit |-> "invalid_symbol", consumed |-> i]
             ELSE LET next ==
                          GetEpsilonClosureSet(
                              a.epsilon_closures,
                              NextStatesAfterSymbol(a.transitions, current_states,
                                                    symbol))
                  IN  IF next = {}
                      THEN [ret |-> FALSE, exit |-> "dead_end", consumed |-> i]
                      ELSE AcceptsLoop(a, next, w, i + 1)

\* NFA.accepts(input_string)
AcceptsResult(a, w) ==
    AcceptsLoop(a, GetEpsilonClosureSet(a.epsilon_closures, {a.start_state}), w, 1)

\* Variant of NfaAfterAccepts: the closure of the start state is not copied
\* before the closures reached by the first symbol are added to it.
NfaAfterAcceptsAliased(a, w) ==
    IF w = <<>> \/ <<w[1]>> \notin a.alphabet THEN a
    ELSE LET first == GetEpsilonClosureSet(a.epsilon_closures, {a.start_state})
             reached == GetEpsilonClosureSet(
                            a.epsilon_closures,
                            NextStatesAfterSymbol(a.transitions, first, <<w[1]>>))
         IN  [a EXCEPT !.epsilon_closures[a.start_state] = @ \cup reached]

\* The fields of the automaton after accepts(w): accepts and
\* _get_epsilon_closure_set assign no field and build fresh sets only.
NfaAfterAccepts(a, w) == a

-----------------------------------------------------------------------------
(* build_nfa_from_grammar                                                  *)

\* Variant of AddTransition: assignment in place of add, so that a second
\* destination under a key replaces the first.
AddTransitionOverwrite(t, key, dst) ==
    IF key \in DOMAIN t THEN [t EXCEPT ![key] = {dst}]
    ELSE t @@ (key :> {dst})

\* nfa_transitions[key].add(dst) on a defaultdict(set)
AddTransition(t, key, dst) ==
    IF key \in DOMAIN t THEN [t EXCEPT ![key] = @ \cup {dst}]
    ELSE t @@ (key :> {dst})

\* for terminal, next_state in productions: from the i-th production on.
RECURSIVE BuildProductions(_, _, _, _)
BuildProductions(head_state, productions, i, t) ==
    IF i > Len(productions) THEN [err |-> NoError, transitions |-> t]
    ELSE LET terminal == productions[i][1]
             next_state == productions[i][2]
         IN  IF terminal = None /\ next_state = None
             THEN BuildProductions(
                      head_state, productions, i + 1,
                      AddTransition(t, <<head_state, None>>, FINAL_STATE_MARKER))
             ELSE IF terminal # None /\ next_state = None
             THEN BuildProductions(
                      head_state, productions, i + 1,
                      AddTransition(t, <<head_state, terminal>>, FINAL_STATE_MARKER))
             ELSE IF terminal # None /\ next_state # None
             THEN BuildProductions(
                      head_state, productions, i + 1,
                      AddTransition(t, <<head_state, terminal>>, next_state))
             ELSE [err |-> Raise("RuntimeError", "InternalError", 0, next_state),
                   transitions |-> t]

\* for head_state, productions in grammar_dict.items()
RECURSIVE BuildTransitions(_, _, _)
BuildTransitions(grammar_dict_, heads, t) ==
    IF heads = {} THEN [err |-> NoError, transitions |-> t]
    ELSE LET head_state == CHOOSE h \in heads : TRUE
             r == BuildProductions(head_state, grammar_dict_[head_state], 1, t)
         IN  IF r.err # NoError THEN r
             ELSE BuildTransitions(grammar_dict_, heads \ {head_state},
                                   r.transitions)

NoArgs ==
    [states |-> {}, alphabet |-> {}, transitions |-> <<>>, start_state |-> None,
     accept_states |-> {}]

\* Variant of BuildArgs: the clash of the marker with V is not checked.
BuildArgsNoClashCheck(grammar_dict_, non_terminals, terminals, start_symbol) ==
    LET r == BuildTransitions(grammar_dict_, DOMAIN grammar_dict_, <<>>)
    IN  IF r.err # NoError THEN [err |-> r.err, args |-> NoArgs]
        ELSE [err |-> NoError,
              args |-> [states |-> non_terminals \cup {FINAL_STATE_MARKER},
                        alphabet |-> terminals,
                        transitions |-> r.transitions,
                        start_state |-> start_symbol,
                        accept_states |-> {FINAL_STATE_MARKER}]]

\* build_nfa_from_grammar up to the call of the NFA constructor: the
\* exception raised, or the arguments of that call.
BuildArgs(grammar_dict_, non_terminals, terminals, start_symbol) ==
    IF FINAL_STATE_MARKER \in non_terminals
    THEN [err |-> Raise("ValueError", "FinalMarkerClash", 0, FINAL_STATE_MARKER),
          args |-> NoArgs]
    ELSE LET r == BuildTransitions(grammar_dict_, DOMAIN grammar_dict_, <<>>)
         IN  IF r.err # NoError THEN [err |-> r.err, args |-> NoArgs]
             ELSE [err |-> NoError,
                   args |-> [states |-> non_terminals \cup {FINAL_STATE_MARKER},
                             alphabet |-> terminals,
                             transitions |-> r.transitions,
                             start_state |-> start_symbol,
                             accept_states |-> {FINAL_STATE_MARKER}]]

\* NFA(...) on a record of arguments.
Construct(a) ==
    NFAInit(a.states, a.alphabet, a.transitions, a.start_state, a.accept_states)

\* build_nfa_from_grammar: the exception raised, or the automaton returned.
BuildNfaFromGrammar(grammar_dict_, non_terminals, terminals, start_symbol) ==
    LET b == BuildArgs(grammar_dict_, non_terminals, terminals, start_symbol)
    IN  IF b.err # NoError THEN [err |-> b.err, nfa |-> NoNFA]
        ELSE Construct(b.args)

-----------------------------------------------------------------------------
(* The inputs.                                                             *)

\* The declarations handed to parse_grammar: V, Sigma and the start symbol.
Declarations ==
    {[V |-> {<<"S">>, <<"A">>}, Sigma |-> {<<"a">>, <<"b">>}, S |-> <<"S">>],
     [V |-> {<<"S">>}, Sigma |-> {<<"a">>}, S |-> <<"S">>],
     [V |-> {<<"S">>, <<"A">>, <<"B">>}, Sigma |-> {<<"a">>, <<"b">>},
      S |-> <<"S">>],
     [V |-> {}, Sigma |-> {<<"a">>}, S |-> <<"S">>],
     [V |-> {<<"S">>, <<"A">>}, Sigma |-> {<<"a">>, <<"b">>}, S |-> <<"B">>],
     [V |-> {<<"S">>, <<"a">>}, Sigma |-> {<<"a">>, <<"b">>}, S |-> <<"S">>],
     [V |-> {<<"S">>, FINAL_STATE_MARKER}, Sigma |-> {<<"a">>, <<"b">>},
      S |-> <<"S">>]}

\* The rule lines, in order:
\*   'S -> aA | b'         
\*   'A -> b'              
\*   'S ->'                
\*   'S -> aB'             
\*   'S -> epsilon'        
\*   '# S -> a'            
\*   ' '                   
\*   ' A -> Epsilon | aA ' 
\*   'S a'                 
\*   ' -> a'               
\*   'S -> a |'            
\*   'S -> aAb'            
\*   'S -> cB'             
\*   'S->bS'               
\*   'B -> a'              
\*   'S -> c'              
\* and "S -> " followed by the Greek epsilon.
RuleLines ==
    {
     <<"S", " ", "-", ">", " ", "a", "A", " ", "|", " ", "b">>,
     <<"A", " ", "-", ">", " ", "b">>,
     <<"S", " ", "-", ">">>,
     <<"S", " ", "-", ">", " ", "a", "B">>,
     <<"S", " ", "-", ">", " ", "e", "p", "s", "i", "l", "o", "n">>,
     <<"#", " ", "S", " ", "-", ">", " ", "a">>,
     <<" ">>,
     <<" ", "A", " ", "-", ">", " ", "E", "p", "s", "i", "l", "o", "n", " ", "|", " ", "a", "A", " ">>,
     <<"S", " ", "a">>,
     <<" ", "-", ">", " ", "a">>,
     <<"S", " ", "-", ">", " ", "a", " ", "|">>,
     <<"S", " ", "-", ">", " ", "a", "A", "b">>,
     <<"S", " ", "-", ">", " ", "c", "B">>,
     <<"S", "-", ">", "b", "S">>,
     <<"B", " ", "-", ">", " ", "a">>,
     <<"S", " ", "-", ">", " ", "c">>,
     <<"B", " ", "-", ">">>,
     <<"S", " ", "-", ">", " ", GreekEpsilon>>}

\* All sequences of at most n elements of S.
SeqsUpTo(S, n) == UNION {[1..k -> S] : k \in 0..n}

\* The characters of the strings given to accepts.
InputChars == {"a", "b", "c"}

InputStrings == SeqsUpTo(InputChars, MaxInputLen)

-----------------------------------------------------------------------------
(* The pipeline of main(): parse_grammar, build_nfa_from_grammar, then any *)
(* number of accepts calls.  An exception ends the run.                    *)

NoClosureCall == [state |-> None, ret |-> {}]

Init ==
    /\ pc = "start"
    /\ decl \in Declarations
    /\ grammar_lines \in SeqsUpTo(RuleLines, MaxLines)
    /\ line_num = 0
    /\ grammar = <<>>
    /\ grammar_dict = NoGrammar
    /\ error = NoError
    /\ args = NoArgs
    /\ nfa = NoNFA
    /\ input_string = <<>>
    /\ result = NoResult
    /\ closure_call = NoClosureCall

\* parse_grammar up to its loop: the checks of the declarations.
ParseGrammarBegin ==
    /\ pc = "start"
    /\ LET e == CheckDeclarations(decl.V, decl.Sigma, decl.S)
       IN  /\ error' = e
           /\ pc' = IF e = NoError THEN "parse_loop" ELSE "failed"
    /\ UNCHANGED <<decl, grammar_lines, line_num, grammar, grammar_dict, args,
                   nfa, input_string, result, closure_call>>

\* One iteration of the loop of parse_grammar over the lines.
ParseGrammarLine ==
    /\ pc = "parse_loop"
    /\ line_num < Len(grammar_lines)
    /\ LET n == line_num + 1
           r == ParseLine(grammar_lines[n], n, grammar, decl.V, decl.Sigma)
       IN  /\ line_num' = n
           /\ error' = r.err
           /\ grammar' = r.grammar
           /\ pc' = IF r.err = NoError THEN "parse_loop" ELSE "failed"
    /\ UNCHANGED <<decl, grammar_lines, grammar_dict, args, nfa, input_string,
                   result, closure_call>>

\* return dict(grammar)
ParseGrammarReturn ==
    /\ pc = "parse_loop"
    /\ line_num = Len(grammar_lines)
    /\ grammar_dict' = Returned(grammar)
    /\ pc' = "parsed"
    /\ UNCHANGED <<decl, grammar_lines, line_num, grammar, error, args, nfa,
                   input_string, result, closure_call>>

\* nfa = build_nfa_from_grammar(grammar_dict, non_terminals, terminals,
\* start_symbol), the NFA constructor included.
BuildNfa ==
    /\ pc = "parsed"
    /\ LET b == BuildArgs(grammar_dict.value, decl.V, decl.Sigma, decl.S)
           r == BuildNfaFromGrammar(grammar_dict.value, decl.V, decl.Sigma, decl.S)
       IN  /\ args' = b.args
           /\ error' = r.err
           /\ nfa' = r.nfa
           /\ pc' = IF r.err = NoError THEN "ready" ELSE "failed"
    /\ UNCHANGED <<decl, grammar_lines, line_num, grammar, grammar_dict,
                   input_string, result, closure_call>>

\* nfa.accepts(w) for a string w of W, from the call to the return.
AcceptsCall(W) ==
    /\ pc = "ready"
    /\ \E w \in W :
          /\ input_string' = w
          /\ result' = AcceptsResult(nfa, w)
          /\ nfa' = NfaAfterAccepts(nfa, w)
    /\ pc' = "returned"
    /\ UNCHANGED <<decl, grammar_lines, line_num, grammar, grammar_dict, error,
                   args, closure_call>>

Accepts == AcceptsCall(InputStrings)

\* The caller has used the value returned and is about to make its next call;
\* the automaton stays as the call left it.
NextCall ==
    /\ pc = "returned"
    /\ pc' = "ready"
    /\ input_string' = <<>>
    /\ result' = NoResult
    /\ closure_call' = NoClosureCall
    /\ UNCHANGED <<decl, grammar_lines, line_num, grammar, grammar_dict, error,
                   args, nfa>>

Next ==
    \/ ParseGrammarBegin
    \/ ParseGrammarLine
    \/ ParseGrammarReturn
    \/ BuildNfa
    \/ Accepts
    \/ NextCall

Spec == Init /\ [][Next]_vars

-----------------------------------------------------------------------------
(* The NFA engine on its own: the constructor called with any arguments,   *)
(* then any number of accepts and _compute_epsilon_closure calls.          *)

Q0 == <<"q", "0">>

Q1 == <<"q", "1">>

Q2 == <<"q", "2">>

\* The edges a transition table is made of: <<state, symbol or None, state>>.
\* "c" is outside the alphabet of the automata constructed.
EdgePool ==
    ({Q0, Q1, Q2} \X {None, <<"a">>} \X {Q0, Q1, Q2}) \cup {<<Q0, <<"c">>, Q1>>}

\* The subsets of S of at most n elements.
RECURSIVE SubsetsUpTo(_, _)
SubsetsUpTo(S, n) ==
    IF n = 0 THEN {{}}
    ELSE LET smaller == SubsetsUpTo(S, n - 1)
         IN  smaller \cup {T \cup {e} : T \in smaller, e \in S}

\* The transitions dict holding a set of edges.
TransitionsOf(edges) ==
    [k \in {<<e[1], e[2]>> : e \in edges} |->
        {e[3] : e \in {d \in edges : d[1] = k[1] /\ d[2] = k[2]}}]

\* states, start_state and accept_states of the automata constructed; Q2 is
\* undeclared in all but the first.
StateChoices ==
    {[states |-> {Q0, Q1, Q2}, start_state |-> Q0, accept_states |-> {Q2}],
     [states |-> {Q0, Q1}, start_state |-> Q0, accept_states |-> {Q1}],
     [states |-> {Q0, Q1}, start_state |-> Q2, accept_states |-> {Q1}],
     [states |-> {Q0, Q1}, start_state |-> Q0, accept_states |-> {Q2}]}

\* The characters of the strings given to accepts: "a" is in the alphabet of
\* the automata constructed and "c" is not.
EngineChars == {"a", "c"}

EngineStrings == SeqsUpTo(EngineChars, MaxInputLen)

ConstructorArgs ==
    {[states |-> c.states, alphabet |-> {<<"a">>},
      transitions |-> TransitionsOf(edges), start_state |-> c.start_state,
      accept_states |-> c.accept_states] :
        c \in StateChoices, edges \in SubsetsUpTo(EdgePool, MaxEdges)}

InitNFA ==
    /\ pc = "construct"
    /\ decl = [V |-> {}, Sigma |-> {}, S |-> None]
    /\ grammar_lines = <<>>
    /\ line_num = 0
    /\ grammar = <<>>
    /\ grammar_dict = NoGrammar
    /\ error = NoError
    /\ args \in ConstructorArgs
    /\ nfa = NoNFA
    /\ input_string = <<>>
    /\ result = NoResult
    /\ closure_call = NoClosureCall

\* NFA(states, alphabet, transitions, start_state, accept_states)
NewNFA ==
    /\ pc = "construct"
    /\ LET r == Construct(args)
       IN  /\ error' = r.err
           /\ nfa' = r.nfa
           /\ pc' = IF r.err = NoError THEN "ready" ELSE "failed"
    /\ UNCHANGED <<decl, grammar_lines, line_num, grammar, grammar_dict, args,
                   input_string, result, closure_call>>

\* nfa._compute_epsilon_closure(state) on a declared state, after construction.
ComputeClosureAgain ==
    /\ pc = "ready"
    /\ \E state \in nfa.states :
          LET cache == ComputeEpsilonClosure(nfa.transitions,
                                             nfa.epsilon_closures, state)
          IN  /\ nfa' = [nfa EXCEPT !.epsilon_closures = cache]
              /\ closure_call' = [state |-> state, ret |-> cache[state]]
    /\ pc' = "returned"
    /\ UNCHANGED <<decl, grammar_lines, line_num, grammar, grammar_dict, error,
                   args, input_string, result>>

AcceptsAny == AcceptsCall(EngineStrings)

NextNFA ==
    \/ NewNFA
    \/ AcceptsAny
    \/ ComputeClosureAgain
    \/ NextCall

SpecNFA == InitNFA /\ [][NextNFA]_vars

-----------------------------------------------------------------------------
(* The language of the grammar, the kinds of error of the specification    *)
(* and the statements checked.                                             *)

\* w is derivable from the non-terminal A with the productions of g:
\* A -> epsilon, A -> a, A -> aB.
RECURSIVE Derives(_, _, _)
Derives(g, A, w) ==
    /\ A \in DOMAIN g
    /\ \E i \in 1..Len(g[A]) :
          LET t == g[A][i][1]
              B == g[A][i][2]
          IN  \/ t = None /\ B = None /\ w = <<>>
              \/ t # None /\ B = None /\ w = t
              \/ /\ t # None /\ B # None
                 /\ Len(w) >= Len(t)
                 /\ SubSeq(w, 1, Len(t)) = t
                 /\ Derives(g, B, SubSeq(w, Len(t) + 1, Len(w)))

\* An accepts call has returned (and not a _compute_epsilon_closure call).
AcceptsReturned == pc = "returned" /\ closure_call = NoClosureCall

OverSigma(w, Sigma) == \A i \in 1..Len(w) : <<w[i]>> \in Sigma

Scenario1Decl ==
    [V |-> {<<"S">>, <<"A">>}, Sigma |-> {<<"a">>, <<"b">>}, S |-> <<"S">>]

Scenario1Lines ==
    <<<<"S", " ", "-", ">", " ", "a", "A", " ", "|", " ", "b">>,
      <<"A", " ", "-", ">", " ", "b">>>>

InScenario1 == decl = Scenario1Decl /\ grammar_lines = Scenario1Lines

\* C1: the automaton built from a parsed grammar accepts a string over Sigma
\* exactly when the grammar derives it from the start symbol; on scenario 1
\* "ab" and "b" are accepted and "a", "" and "aab" are not.
C1_AcceptsIffDerivable ==
    AcceptsReturned =>
        /\ OverSigma(input_string, decl.Sigma) =>
              (result.ret <=> Derives(grammar_dict.value, decl.S, input_string))
        /\ InScenario1 =>
              /\ input_string \in {<<"a", "b">>, <<"b">>} => result.ret
              /\ input_string \in {<<"a">>, <<>>, <<"a", "a", "b">>} => ~result.ret

C1_Witness ==
    AcceptsReturned /\ InScenario1 /\ input_string = <<"a", "b">> /\ result.ret

\* C2: when build_nfa_from_grammar succeeds the automaton starts in S, accepts
\* in exactly the FINAL marker, has the states V and the marker, and the
\* marker is no member of V.
C2_BuiltShape ==
    (pc \in {"ready", "returned"}) =>
        /\ nfa.start_state = decl.S
        /\ nfa.accept_states = {FINAL_STATE_MARKER}
        /\ nfa.states = decl.V \cup {FINAL_STATE_MARKER}
        /\ FINAL_STATE_MARKER \notin decl.V

C2_Witness ==
    /\ pc = "ready"
    /\ decl.V = {<<"S">>, <<"A">>, <<"B">>}
    /\ nfa.states = {<<"S">>, <<"A">>, <<"B">>, FINAL_STATE_MARKER}
    /\ nfa.start_state = <<"S">>
    /\ DOMAIN nfa.transitions # {}

\* C3: after construction the cached closure of every declared state holds
\* the state, is closed under epsilon transitions, is a fixed point of the
\* closure-of-set operation, and computing it again returns it.
C3_ClosureIdempotent ==
    (pc \in {"ready", "returned"}) =>
        /\ DOMAIN nfa.epsilon_closures = nfa.states
        /\ \A s \in nfa.states :
              LET c == nfa.epsilon_closures[s]
              IN  /\ s \in c
                  /\ \A q \in c : Get(nfa.transitions, <<q, None>>) \subseteq c
                  /\ GetEpsilonClosureSet(nfa.epsilon_closures, c) = c
                  /\ ComputeEpsilonClosure(nfa.transitions, nfa.epsilon_closures,
                                           s)[s] = c
                  /\ ClosureLoop(nfa.transitions, <<s>>, {s}, {s}) = c
                  /\ closure_call.state = s => closure_call.ret = c

\* An epsilon chain Q0 -> Q1 -> Q2 with the epsilon cycle Q1 -> Q0.
C3_Witness ==
    /\ pc = "returned"
    /\ closure_call.state = Q0
    /\ closure_call.ret = {Q0, Q1, Q2}
    /\ Get(nfa.transitions, <<Q0, None>>) = {Q1}
    /\ Get(nfa.transitions, <<Q1, None>>) = {Q0, Q2}

C5_UnknownSymbolRejected ==
    (AcceptsReturned /\ ~OverSigma(input_string, nfa.alphabet)) =>
        /\ result.ret = FALSE
        /\ result.exit \in {"invalid_symbol", "dead_end"}
        /\ error = NoError

C5_Witness ==
    /\ AcceptsReturned
    /\ input_string = <<"a", "c", "a">>
    /\ result.exit = "invalid_symbol"
    /\ result.ret = FALSE

\* The kinds of error of the specification, by the message raised.
ConfigErrorMsgs ==
    {"NonTerminalSetEmpty", "StartSymbolNotDeclared", "TerminalsNotDisjoint",
     "FinalMarkerClash", "StartStateNotInStates", "AcceptStatesNotSubset",
     "SymbolNotInAlphabet"}

SyntaxErrorMsgs ==
    {"MissingArrow", "EmptyHead", "EmptyProduction", "InvalidProductionFormat",
     "UnexpectedProductionFormat"}

UndeclaredSymbolMsgs ==
    {"HeadNotDeclared", "SymbolNotInDeclaredTerminals",
     "SymbolNotInDeclaredNonTerminals"}

\* C6: with an empty V, a start symbol outside V or overlapping Sigma and V,
\* parse_grammar fails with the configuration error before it reads a line,
\* whatever the lines are, and returns no grammar.
C6_ConfigErrorFirst ==
    ((decl.V = {} \/ decl.S \notin decl.V \/ decl.Sigma \cap decl.V # {})
        /\ pc # "start") =>
        /\ pc = "failed"
        /\ error.exc = "ValueError"
        /\ error.msg \in ConfigErrorMsgs
        /\ error.msg = IF decl.V = {} THEN "NonTerminalSetEmpty"
                       ELSE IF decl.S \notin decl.V THEN "StartSymbolNotDeclared"
                       ELSE "TerminalsNotDisjoint"
        /\ line_num = 0
        /\ grammar = <<>>
        /\ grammar_dict = NoGrammar

\* Overlapping sets, the first line malformed.
C6_Witness ==
    /\ pc = "failed"
    /\ decl.Sigma \cap decl.V # {}
    /\ Len(grammar_lines) = 2
    /\ grammar_lines[1] = <<"S", " ", "-", ">">>
    /\ error.msg = "TerminalsNotDisjoint"

\* What the statements about lines say of a stripped line.
IsSkipped(l) == l = <<>> \/ l[1] = "#"

HeadOf(l) == Strip(SplitArrow(l)[1])

AlternativesOf(l) == Productions(SplitArrow(l)[2])

HasEmptyAlternative(l) ==
    \E k \in 1..Len(AlternativesOf(l)) : AlternativesOf(l)[k] = <<>>

\* A missing arrow, an empty head, or an empty body or alternative.
Malformed(l) ==
    /\ ~IsSkipped(l)
    /\ \/ ~ContainsArrow(l)
       \/ HeadOf(l) = <<>>
       \/ HasEmptyAlternative(l)

\* The same, the empty body or alternative under a declared head only.
MalformedDeclaredHead(l, V) ==
    /\ ~IsSkipped(l)
    /\ \/ ~ContainsArrow(l)
       \/ HeadOf(l) = <<>>
       \/ HeadOf(l) \in V /\ HasEmptyAlternative(l)

\* The run failed at line n with a syntax error, read no later line and
\* returned no grammar.
SyntaxErrorAt(n) ==
    /\ pc = "failed"
    /\ error.exc = "ValueError"
    /\ error.msg \in SyntaxErrorMsgs
    /\ error.line_num = n
    /\ line_num = n
    /\ grammar_dict = NoGrammar

\* C7 as stated: every malformed line that is read fails with a syntax error
\* at its position.
C7_Original ==
    \A n \in 1..line_num :
        Malformed(Strip(grammar_lines[n])) => SyntaxErrorAt(n)

\* C7: lines are read in order; a line with a missing arrow, an empty head, or
\* an empty body or alternative under a declared head fails with a syntax error
\* at its 1-based position among all lines, no later line is read and no
\* grammar is returned; an empty body or alternative under an undeclared head
\* fails at that position with the undeclared-head error.
C7_SyntaxErrorAtFirstBadLine ==
    \A n \in 1..line_num :
        LET l == Strip(grammar_lines[n])
        IN  /\ MalformedDeclaredHead(l, decl.V) => SyntaxErrorAt(n)
            /\ (Malformed(l) /\ ~MalformedDeclaredHead(l, decl.V)) =>
                  /\ pc = "failed"
                  /\ error = Raise("ValueError", "HeadNotDeclared", n, HeadOf(l))
                  /\ line_num = n
                  /\ grammar_dict = NoGrammar

\* "S ->" as the second line, after a skipped line.
C7_Witness ==
    /\ SyntaxErrorAt(2)
    /\ IsSkipped(Strip(grammar_lines[1]))
    /\ grammar_lines[2] = <<"S", " ", "-", ">">>
    /\ error.msg = "EmptyProduction"

\* A production string of one of the three legal forms over V and Sigma.
WellFormedProduction(prod, V, Sigma) ==
    \/ Lower(prod) = EpsilonKeyword
    \/ prod = <<GreekEpsilon>>
    \/ Len(prod) = 1 /\ prod \in Sigma
    \/ Len(prod) = 2 /\ <<prod[1]>> \in Sigma /\ <<prod[2]>> \in V

\* The line has an arrow, a declared head and no empty alternative, so that
\* its productions are classified one after the other.
ReachesProductions(l, V) ==
    /\ ~IsSkipped(l)
    /\ ContainsArrow(l)
    /\ HeadOf(l) \in V
    /\ ~HasEmptyAlternative(l)

\* The positions of the alternatives of l that are reached and are not
\* well-formed: at most the first one that is not.
FirstIllFormed(l, V, Sigma) ==
    {k \in 1..Len(AlternativesOf(l)) :
        /\ ~WellFormedProduction(AlternativesOf(l)[k], V, Sigma)
        /\ \A j \in 1..(k - 1) :
              WellFormedProduction(AlternativesOf(l)[j], V, Sigma)}

\* C8: a production of length 2 that is reached has its first character
\* checked against Sigma and then its second against V; an undeclared second
\* character after a declared first one fails with the undeclared-symbol error,
\* of a kind other than the syntax and configuration errors, that names the
\* second character and the line; an undeclared first character fails with
\* the undeclared-symbol error that names the first.
C8_UndeclaredNextSymbol ==
    \A n \in 1..line_num :
        LET l == Strip(grammar_lines[n])
        IN  ReachesProductions(l, decl.V) =>
              \A k \in FirstIllFormed(l, decl.V, decl.Sigma) :
                  LET prod == AlternativesOf(l)[k]
                  IN  Len(prod) = 2 =>
                        /\ pc = "failed"
                        /\ line_num = n
                        /\ grammar_dict = NoGrammar
                        /\ error.msg \in UndeclaredSymbolMsgs
                        /\ error.msg \notin SyntaxErrorMsgs \cup ConfigErrorMsgs
                        /\ error =
                              IF <<prod[1]>> \in decl.Sigma
                              THEN Raise("ValueError",
                                         "SymbolNotInDeclaredNonTerminals",
                                         n, <<prod[2]>>)
                              ELSE Raise("ValueError",
                                         "SymbolNotInDeclaredTerminals",
                                         n, <<prod[1]>>)

\* "S -> aB", B undeclared, as the second line.
C8_Witness ==
    /\ pc = "failed"
    /\ <<"B">> \notin decl.V
    /\ Len(grammar_lines) = 2
    /\ grammar_lines[2] = <<"S", " ", "-", ">", " ", "a", "B">>
    /\ error = Raise("ValueError", "SymbolNotInDeclaredNonTerminals", 2, <<"B">>)

\* A pair of one of the three legal shapes over V and Sigma.
WellFormedPair(p, V, Sigma) ==
    \/ p = <<None, None>>
    \/ p[1] \in Sigma /\ p[2] = None
    \/ p[1] \in Sigma /\ p[2] \in V

\* C9: a grammar parse_grammar returns has declared heads and pairs of the
\* three legal shapes only, never (None, next); build_nfa_from_grammar does
\* not reach its internal error on it, and every transition it creates leaves
\* a state and enters states of the state set, on epsilon or on a symbol of
\* the alphabet.
C9_ParsedGrammarWellFormed ==
    /\ grammar_dict.returned =>
          \A head \in DOMAIN grammar_dict.value :
              /\ head \in decl.V
              /\ \A i \in 1..Len(grammar_dict.value[head]) :
                    LET p == grammar_dict.value[head][i]
                    IN  /\ WellFormedPair(p, decl.V, decl.Sigma)
                        /\ ~(p[1] = None /\ p[2] # None)
    /\ error.exc # "RuntimeError"
    /\ error.msg # "InternalError"
    /\ args # NoArgs =>
          /\ pc \in {"ready", "returned"}
          /\ \A k \in DOMAIN args.transitions :
                /\ k[1] \in args.states
                /\ k[2] = None \/ k[2] \in args.alphabet
                /\ args.transitions[k] \subseteq args.states
                /\ args.transitions[k] # {}

C9_Witness ==
    /\ pc = "ready"
    /\ grammar_dict.returned
    /\ {<<"S">>, <<"B">>} \subseteq DOMAIN grammar_dict.value
    /\ <<<<"a">>, <<"B">>>> \in {grammar_dict.value[<<"S">>][i] :
                                    i \in 1..Len(grammar_dict.value[<<"S">>])}
    /\ <<"B">> \in Get(args.transitions, <<<<"S">>, <<"a">>>>)

\* The epsilon closure of a set of states, as the least set that holds it and
\* is closed under the epsilon edges.
RECURSIVE EpsilonReach(_, _)
EpsilonReach(transitions, X) ==
    LET step == X \cup UNION {Get(transitions, <<q, None>>) : q \in X}
    IN  IF step = X THEN X ELSE EpsilonReach(transitions, step)

\* The states the automaton can be in after reading w.
RECURSIVE StatesAfter(_, _)
StatesAfter(a, w) ==
    IF w = <<>> THEN EpsilonReach(a.transitions, {a.start_state})
    ELSE LET before == StatesAfter(a, SubSeq(w, 1, Len(w) - 1))
             symbol == <<w[Len(w)]>>
         IN  EpsilonReach(a.transitions,
                          UNION {Get(a.transitions, <<q, symbol>>) : q \in before})

\* The position of the first symbol of w outside the alphabet.
FirstInvalid(w, alphabet) ==
    Min({i \in 1..Len(w) : <<w[i]>> \notin alphabet})

\* C10 as stated: a string with a symbol outside the alphabet always ends in
\* the invalid-symbol rejection.
C10_Original ==
    (AcceptsReturned /\ ~OverSigma(input_string, nfa.alphabet)) =>
        result.exit = "invalid_symbol"

\* C10: a string with a symbol outside the alphabet is rejected; by the
\* invalid-symbol rejection at the first such symbol when the symbols before
\* it leave the state set non-empty, and otherwise by the dead-end rejection,
\* before that symbol is looked at.
C10_InvalidSymbolOrDeadEnd ==
    (AcceptsReturned /\ ~OverSigma(input_string, nfa.alphabet)) =>
        LET k == FirstInvalid(input_string, nfa.alphabet)
            live == \A j \in 0..(k - 1) :
                        StatesAfter(nfa, SubSeq(input_string, 1, j)) # {}
        IN  /\ result.ret = FALSE
            /\ live => result.exit = "invalid_symbol" /\ result.consumed = k
            /\ ~live => result.exit = "dead_end" /\ result.consumed < k

\* An invalid symbol after the dead end.
C10_Witness ==
    /\ AcceptsReturned
    /\ result.exit = "dead_end"
    /\ result.consumed = 1
    /\ input_string = <<"b", "c">>
    /\ <<"b">> \in nfa.alphabet

=============================================================================
